---- MODULE Spec2Model ----
(***************************************************************************)
(* cjit: a stack bytecode is lowered to x86-64 machine code by Compiler    *)
(* (src/src/compiler.rs) and run from an anonymous mapping by Invoker.     *)
(*                                                                         *)
(* The model keeps the output buffer as the very bytes the compiler emits, *)
(* and runs them on a model of the x86-64 instructions those bytes encode. *)
(* A 64-bit value is its 8 little-endian bytes (what i64::to_le_bytes      *)
(* produces), so that 64-bit wraparound is exact.                          *)
(***************************************************************************)
EXTENDS Integers, Sequences, FiniteSets, TLC

(***************************************************************************)
(* Bounds of the model.                                                    *)
(***************************************************************************)
\* the driver stops an execution of generated code after this many
\* machine instructions
MaxSteps == 60
\* calls of compile on one Compiler instance
MaxCompiles == 2
\* operands of the generated two-operand programs range over -MaxVal..MaxVal
MaxVal == 2

(***************************************************************************)
(* 64-bit values as 8 little-endian bytes.                                 *)
(***************************************************************************)
RECURSIVE to_le_bytes(_, _)
\* iN::to_le_bytes: the n low bytes of v, two's complement (\div floors)
to_le_bytes(v, n) ==
    IF n = 0 THEN <<>> ELSE <<v % 256>> \o to_le_bytes(v \div 256, n - 1)

\* the i32 a rel32 / disp32 field holds
I32FromLe(b) ==
    b[1] + 256 * b[2] + 65536 * b[3]
      + 16777216 * (IF b[4] >= 128 THEN b[4] - 256 ELSE b[4])

IsWord(v) == Len(v) = 8
W(v) == to_le_bytes(v, 8)
Zero64 == W(0)
MinI64 == <<0, 0, 0, 0, 0, 0, 0, 128>>
SignBit(a) == IF a[8] >= 128 THEN 1 ELSE 0
IsZero64(a) == a = Zero64

RECURSIVE AddCarry(_, _, _, _)
AddCarry(a, b, i, c) ==
    IF i > 8 THEN <<>>
    ELSE LET s == a[i] + b[i] + c
         IN  <<s % 256>> \o AddCarry(a, b, i + 1, s \div 256)

Not64(a) == [i \in 1..8 |-> 255 - a[i]]
Add64(a, b) == AddCarry(a, b, 1, 0)
Sub64(a, b) == AddCarry(a, Not64(b), 1, 1)
Neg64(a) == AddCarry(Zero64, Not64(a), 1, 1)

RECURSIVE BitOp(_, _, _, _)
\* one byte of and / or / xor, bit by bit
BitOp(op, x, y, n) ==
    IF n = 0 THEN 0
    ELSE LET p == x % 2
             q == y % 2
             r == CASE op = "and" -> p * q
                    [] op = "or"  -> IF p + q > 0 THEN 1 ELSE 0
                    [] op = "xor" -> (p + q) % 2
         IN  r + 2 * BitOp(op, x \div 2, y \div 2, n - 1)

And64(a, b) == [i \in 1..8 |-> BitOp("and", a[i], b[i], 8)]
Or64(a, b)  == [i \in 1..8 |-> BitOp("or", a[i], b[i], 8)]
Xor64(a, b) == [i \in 1..8 |-> BitOp("xor", a[i], b[i], 8)]

\* a * 2, and a \div 2 with the sign kept
Shl1(a) == AddCarry(a, a, 1, 0)
Sar1(a) ==
    [i \in 1..8 |-> (a[i] \div 2) + 128 * (IF i < 8 THEN a[i + 1] % 2 ELSE SignBit(a))]

\* a shifted by n bits, one bit at a time.  (The test on a makes TLC evaluate
\* it at every step instead of building n nested unevaluated terms.)
RECURSIVE Shl64(_, _)
Shl64(a, n) == IF n = 0 \/ ~IsWord(a) THEN a ELSE Shl64(Shl1(a), n - 1)
RECURSIVE Sar64(_, _)
Sar64(a, n) == IF n = 0 \/ ~IsWord(a) THEN a ELSE Sar64(Sar1(a), n - 1)

RECURSIVE MulCol(_, _, _, _)
\* schoolbook product, column k (0-based), truncated to 8 bytes
MulCol(a, b, k, c) ==
    IF k > 7 THEN <<>>
    ELSE LET RECURSIVE Col(_)
             Col(i) == IF i > k THEN 0 ELSE a[i + 1] * b[k - i + 1] + Col(i + 1)
             s == Col(0) + c
         IN  <<s % 256>> \o MulCol(a, b, k + 1, s \div 256)

Mul64(a, b) == MulCol(a, b, 0, 0)

RECURSIVE ULess(_, _, _)
\* unsigned a < b, from the most significant byte
ULess(a, b, i) ==
    IF i = 0 THEN FALSE
    ELSE IF a[i] # b[i] THEN a[i] < b[i] ELSE ULess(a, b, i - 1)

Bit(a, k) == (a[(k \div 8) + 1] \div (2 ^ (k % 8))) % 2

RECURSIVE UDivStep(_, _, _, _, _)
\* shift-and-subtract division of unsigned n by unsigned d, d # 0, d <= 2^63:
\* <<quotient, remainder>>.  (The test on q and r makes TLC evaluate them at
\* every step instead of building 64 nested unevaluated terms.)
UDivStep(n, d, k, q, r) ==
    IF k < 0 \/ ~(IsWord(q) /\ IsWord(r)) THEN <<q, r>>
    ELSE LET r1 == AddCarry(Shl1(r), Zero64, 1, Bit(n, k))
             ge == ~ULess(r1, d, 8)
         IN  UDivStep(n, d, k - 1,
                      AddCarry(Shl1(q), Zero64, 1, IF ge THEN 1 ELSE 0),
                      IF ge THEN Sub64(r1, d) ELSE r1)

Abs64(a) == IF SignBit(a) = 1 THEN Neg64(a) ELSE a

RECURSIVE TopByte(_, _)
\* the number of bytes of a up to its most significant nonzero byte
TopByte(a, i) == IF i = 0 \/ a[i] # 0 THEN i ELSE TopByte(a, i - 1)

\* unsigned n \div d and n % d; the bits of n above its top byte are zero and
\* leave quotient and remainder zero, so the division starts below them
UDivRem(n, d) == UDivStep(n, d, 8 * TopByte(n, 8) - 1, Zero64, Zero64)

\* signed division truncating toward zero; the remainder has the dividend's sign
SDivRem(a, b) ==
    LET qr == UDivRem(Abs64(a), Abs64(b))
    IN  [quot |-> IF SignBit(a) # SignBit(b) THEN Neg64(qr[1]) ELSE qr[1],
         rem  |-> IF SignBit(a) = 1 THEN Neg64(qr[2]) ELSE qr[2]]

(***************************************************************************)
(* Instruction and Program (compiler.rs 12-63).  An instruction is a       *)
(* record of its variant and its payload (0 for a variant without one).    *)
(***************************************************************************)
Ins(o, a) == [op |-> o, arg |-> a]
Load(v) == Ins("Load", v)
Store(id) == Ins("Store", id)
LoadVar(id) == Ins("LoadVar", id)
Jmp(l) == Ins("Jmp", l)
JmpIf(l) == Ins("JmpIf", l)
JmpIfNot(l) == Ins("JmpIfNot", l)
Label(l) == Ins("Label", l)
Call(l) == Ins("Call", l)
Op(o) == Ins(o, 0)

(***************************************************************************)
(* Compiler.  c is the Compiler struct: bytecode, stk_offset, labels       *)
(* (a function on the ids inserted so far), label_patches (<<pos, label>>  *)
(* pairs), and panicked: the message of the panic! that was reached and    *)
(* ends the process, "" while there is none.                               *)
(***************************************************************************)
NewCompiler ==
    [bytecode |-> <<>>, stk_offset |-> 0, labels |-> <<>>,
     label_patches |-> <<>>, panicked |-> ""]

emit(c, bytes) == [c EXCEPT !.bytecode = @ \o bytes]
panic(c, msg) == [c EXCEPT !.panicked = msg]
Panicked(c) == c.panicked # ""
AddStk(c, d) == [c EXCEPT !.stk_offset = @ + d]

emit_fn_prologue(c) ==
    emit(emit(emit(c, <<85>>),                      \* push rbp
                   <<72, 137, 229>>),               \* mov rbp, rsp
                   <<72, 129, 236, 0, 4, 0, 0>>)    \* sub rsp, 1024

\* (an epilogue that does not reset the stack pointer)
emit_fn_epilogue_no_reset(c) == emit(emit(c, <<93>>), <<195>>)

emit_fn_epilogue(c) ==
    emit(emit(emit(c, <<72, 137, 236>>),            \* mov rsp, rbp
                   <<93>>),                         \* pop rbp
                   <<195>>)                         \* ret

emit_load_imm(c, val) ==
    AddStk(emit(emit(emit(c, <<72, 184>>),          \* mov rax, <val>
                          to_le_bytes(val, 8)),
                          <<80>>), 8)               \* push rax

emit_dup(c) ==
    AddStk(emit(emit(c, <<72, 139, 4, 36>>),        \* mov rax, [rsp]
                     <<80>>), 8)                    \* push rax

emit_pop(c) == AddStk(emit(c, <<88>>), -8)          \* pop rax

\* (a variant that pushes the two values back in the order it popped them)
emit_swap_back(c) == emit(emit(emit(emit(c, <<91>>), <<88>>), <<80>>), <<83>>)

emit_swap(c) ==
    emit(emit(emit(emit(c, <<91>>),                 \* pop rbx
                        <<88>>),                    \* pop rax
                        <<83>>),                    \* push rbx
                        <<80>>)                     \* push rax

\* (a variant that pops the operands in the other order)
PopOperandsSwapped(c) == emit(emit(c, <<88>>), <<91>>)

\* the two pops that open emit_binop and emit_cmp: the top of the stack, the
\* second operand, into rbx, the one below it into rax
PopOperands(c) ==
    emit(emit(c, <<91>>),                           \* pop rbx  ; second
              <<88>>)                               \* pop rax  ; first

emit_binop(c, op) ==
    LET c1 == PopOperands(c)
        done(x) == AddStk(emit(x, <<80>>), -8)      \* push rax
    IN  CASE op = "add" -> done(emit(c1, <<72, 1, 216>>))          \* add rax, rbx
          [] op = "sub" -> done(emit(c1, <<72, 41, 216>>))         \* sub rax, rbx
          [] op = "mul" -> done(emit(c1, <<72, 15, 175, 195>>))    \* imul rax, rbx
          [] op = "and" -> done(emit(c1, <<72, 33, 216>>))         \* and rax, rbx
          [] op = "or"  -> done(emit(c1, <<72, 9, 216>>))          \* or rax, rbx
          [] op = "xor" -> done(emit(c1, <<72, 49, 216>>))         \* xor rax, rbx
          [] op = "div" -> done(emit(emit(c1, <<72, 153>>),        \* cqo
                                          <<72, 247, 251>>))       \* idiv rbx
          [] op = "mod" -> done(emit(emit(emit(c1, <<72, 153>>),   \* cqo
                                          <<72, 247, 251>>),       \* idiv rbx
                                          <<72, 137, 208>>))       \* mov rax, rdx
          [] op = "shl" -> done(emit(emit(c1, <<72, 137, 217>>),   \* mov rcx, rbx
                                          <<72, 211, 224>>))       \* shl rax, cl
          [] op = "shr" -> done(emit(emit(c1, <<72, 137, 217>>),   \* mov rcx, rbx
                                          <<72, 211, 248>>))       \* sar rax, cl
          [] OTHER -> panic(c1, "unknown binop op")

emit_cmp(c, op) ==
    LET c1 == emit(emit(PopOperands(c),
                        <<72, 57, 216>>),           \* cmp rax, rbx
                        <<72, 49, 192>>)            \* xor rax, rax
        done(x) == AddStk(emit(x, <<80>>), -8)      \* push rax
    IN  CASE op = "eq"  -> done(emit(c1, <<15, 148, 192>>))        \* sete al
          [] op = "ne"  -> done(emit(c1, <<15, 149, 192>>))        \* setne al
          [] op = "lt"  -> done(emit(c1, <<15, 156, 192>>))        \* setl al
          [] op = "lte" -> done(emit(c1, <<15, 158, 192>>))        \* setle al
          [] op = "gt"  -> done(emit(c1, <<15, 159, 192>>))        \* setg al
          [] op = "gte" -> done(emit(c1, <<15, 157, 192>>))        \* setge al
          [] OTHER -> panic(c1, "unknown cmp op")

emit_unary(c, op) ==
    LET c1 == emit(c, <<88>>)                       \* pop rax
        done(x) == AddStk(emit(x, <<80>>), -8)      \* push rax
    IN  CASE op = "bnot" -> done(emit(c1, <<72, 247, 208>>))       \* not rax
          [] op = "neg"  -> done(emit(c1, <<72, 247, 216>>))       \* neg rax
          [] op = "ne"   -> done(emit(emit(emit(c1,
                                  <<72, 133, 192>>),               \* test rax, rax
                                  <<72, 49, 192>>),                \* xor rax, rax
                                  <<15, 148, 192>>))               \* sete al
          [] OTHER -> panic(c1, "unknown cmp op")

\* the frame offset of slot id: (id as i32 + 1) * 8
SlotOffset(id) == (id + 1) * 8

emit_store(c, id) ==
    AddStk(emit(emit(emit(c, <<88>>),               \* pop rax
                          <<72, 137, 133>>),        \* mov [rbp-offset], rax
                          to_le_bytes(-SlotOffset(id), 4)), -8)

\* (a variant that reads the slot next to the one emit_store writes)
emit_load_var_next(c, id) ==
    AddStk(emit(emit(emit(c, <<72, 139, 133>>),
                          to_le_bytes(-SlotOffset(id + 1), 4)),
                          <<80>>), 8)

emit_load_var(c, id) ==
    AddStk(emit(emit(emit(c, <<72, 139, 133>>),     \* mov rax, [rbp-offset]
                          to_le_bytes(-SlotOffset(id), 4)),
                          <<80>>), 8)               \* push rax

\* emit_jmp with the two conditional opcodes exchanged
emit_jmp_inverted(c, label, is_conditional_jmp) ==
    LET site(x) == emit([x EXCEPT !.label_patches =
                             Append(@, <<Len(x.bytecode), label>>)],
                        <<0, 0, 0, 0>>)
    IN  CASE is_conditional_jmp = "None" ->
               site(emit(c, <<233>>))
          [] is_conditional_jmp = "Some(true)" ->
               AddStk(site(emit(emit(emit(c, <<88>>), <<72, 133, 192>>),
                                <<15, 132>>)), -8)
          [] is_conditional_jmp = "Some(false)" ->
               AddStk(site(emit(emit(emit(c, <<88>>), <<72, 133, 192>>),
                                <<15, 133>>)), -8)

\* the jump's opcode bytes are emitted, the position of its displacement
\* field is pushed on label_patches, and four zero bytes hold its place
emit_jmp(c, label, is_conditional_jmp) ==
    LET site(x) == emit([x EXCEPT !.label_patches =
                             Append(@, <<Len(x.bytecode), label>>)],
                        <<0, 0, 0, 0>>)
    IN  CASE is_conditional_jmp = "None" ->
               site(emit(c, <<233>>))                              \* jmp rel32
          [] is_conditional_jmp = "Some(true)" ->
               AddStk(site(emit(emit(emit(c, <<88>>),              \* pop rax
                                     <<72, 133, 192>>),            \* test rax, rax
                                     <<15, 133>>)), -8)            \* jnz rel32
          [] is_conditional_jmp = "Some(false)" ->
               AddStk(site(emit(emit(emit(c, <<88>>),              \* pop rax
                                     <<72, 133, 192>>),            \* test rax, rax
                                     <<15, 132>>)), -8)            \* jz rel32

emit_write(c) == emit(emit(c, <<88>>), <<80>>)      \* pop rax ; push rax

\* the displacement taken from the site itself instead of the end of its field
DisplacementFromSite(p, pos) == p - pos

\* let offset = p as i32 - (*pos as i32 + 4)
Displacement(p, pos) == p - (pos + 4)

RECURSIVE PatchFrom(_, _)
\* patch_jumps from the k-th entry of label_patches on.  A site whose label
\* is not in the table is skipped; bytecode[pos + i] beyond the buffer's
\* end panics (Vec indexing).
PatchFrom(c, k) ==
    IF k > Len(c.label_patches) \/ Panicked(c) THEN c
    ELSE LET pos == c.label_patches[k][1]
             label == c.label_patches[k][2]
         IN  IF label \notin DOMAIN c.labels THEN PatchFrom(c, k + 1)
             ELSE LET offset == Displacement(c.labels[label], pos)
                      bytes == to_le_bytes(offset, 4)
                      n == Len(c.bytecode)
                  IN  IF pos + 3 >= n
                      THEN panic([c EXCEPT !.bytecode =
                             [j \in 1..n |-> IF j - 1 >= pos
                                             THEN bytes[j - pos] ELSE @[j]]],
                                 "index out of bounds")
                      ELSE PatchFrom([c EXCEPT !.bytecode =
                             [j \in 1..n |-> IF j - 1 >= pos /\ j - 1 <= pos + 3
                                             THEN bytes[j - pos] ELSE @[j]]],
                             k + 1)

patch_jumps(c) == PatchFrom(c, 1)

RECURSIVE CollectLabels(_, _, _)
\* compile's first loop: every Label(id) of the program is inserted with the
\* buffer's length, which this loop does not change
CollectLabels(c, insts, i) ==
    IF i > Len(insts) THEN c
    ELSE IF insts[i].op = "Label"
         THEN CollectLabels(
                [c EXCEPT !.labels =
                    [id \in DOMAIN @ \cup {insts[i].arg} |->
                        IF id = insts[i].arg THEN Len(c.bytecode) ELSE @[id]]],
                insts, i + 1)
         ELSE CollectLabels(c, insts, i + 1)

\* one arm of compile's match, for an instruction that is no terminator
Lower(c, inst) ==
    CASE inst.op = "Load" -> emit_load_imm(c, inst.arg)
      [] inst.op = "Dup" -> emit_dup(c)
      [] inst.op = "Pop" -> emit_pop(c)
      [] inst.op = "Swap" -> emit_swap(c)
      [] inst.op = "Add" -> emit_binop(c, "add")
      [] inst.op = "Sub" -> emit_binop(c, "sub")
      [] inst.op = "Mul" -> emit_binop(c, "mul")
      [] inst.op = "Div" -> emit_binop(c, "div")
      [] inst.op = "Mod" -> emit_binop(c, "mod")
      [] inst.op = "Neg" -> emit_unary(c, "neg")
      [] inst.op = "Eq" -> emit_cmp(c, "eq")
      [] inst.op = "Ne" -> emit_cmp(c, "ne")
      [] inst.op = "Lt" -> emit_cmp(c, "lt")
      [] inst.op = "Lte" -> emit_cmp(c, "le")
      [] inst.op = "Gt" -> emit_cmp(c, "gt")
      [] inst.op = "Gte" -> emit_cmp(c, "ge")
      [] inst.op = "And" -> emit_binop(c, "and")
      [] inst.op = "Or" -> emit_binop(c, "or")
      [] inst.op = "Not" -> emit_unary(c, "not")
      [] inst.op = "Band" -> emit_binop(c, "and")
      [] inst.op = "Bor" -> emit_binop(c, "or")
      [] inst.op = "Bxor" -> emit_binop(c, "xor")
      [] inst.op = "Bnot" -> emit_unary(c, "bnot")
      [] inst.op = "Shl" -> emit_binop(c, "shl")
      [] inst.op = "Shr" -> emit_binop(c, "shr")
      [] inst.op = "Store" -> emit_store(c, inst.arg)
      [] inst.op = "LoadVar" -> emit_load_var(c, inst.arg)
      [] inst.op = "Jmp" -> emit_jmp(c, inst.arg, "None")
      [] inst.op = "JmpIf" -> emit_jmp(c, inst.arg, "Some(true)")
      [] inst.op = "JmpIfNot" -> emit_jmp(c, inst.arg, "Some(false)")
      [] inst.op = "Label" -> c
      [] inst.op = "Write" -> emit_write(c)
      [] inst.op = "WriteChar" -> emit_write(c)
      [] inst.op = "Read" -> c
      [] inst.op = "Call" -> c

RECURSIVE EmitFromNoBreak(_, _, _, _)
\* the loop without its breaks: Ret emits pop rax, Halt nothing, and the
\* loop goes on
EmitFromNoBreak(c, insts, i, last) ==
    IF i > last \/ Panicked(c) THEN c
    ELSE IF insts[i].op = "Ret"
         THEN EmitFromNoBreak(emit(c, <<88>>), insts, i + 1, last)
    ELSE IF insts[i].op = "Halt" THEN EmitFromNoBreak(c, insts, i + 1, last)
    ELSE EmitFromNoBreak(Lower(c, insts[i]), insts, i + 1, last)

RECURSIVE EmitFrom(_, _, _, _)
\* compile's second loop over insts[i..last]: Ret emits pop rax and breaks,
\* Halt breaks, a panic ends it
EmitFrom(c, insts, i, last) ==
    IF i > last \/ Panicked(c) THEN c
    ELSE IF insts[i].op = "Ret" THEN emit(c, <<88>>)
    ELSE IF insts[i].op = "Halt" THEN c
    ELSE EmitFrom(Lower(c, insts[i]), insts, i + 1, last)

\* Compiler::compile: the Compiler after the call; its bytecode is the
\* Vec<u8> returned unless it panicked
compile(c, insts) ==
    LET c1 == emit_fn_prologue([c EXCEPT !.bytecode = <<>>])
        c2 == CollectLabels(c1, insts, 1)
        c3 == EmitFrom(c2, insts, 1, Len(insts))
        c4 == IF Panicked(c3) THEN c3 ELSE patch_jumps(c3)
    IN  IF Panicked(c4) THEN c4 ELSE emit_fn_epilogue(c4)

(***************************************************************************)
(* The x86-64 instructions the emitted bytes encode, as the processor      *)
(* executes them when Invoker::execute calls the region (compiler.rs 459). *)
(*                                                                         *)
(* A register or stack cell holds a 64-bit word (8 bytes) or one of:       *)
(*   Unknown   a value the program does not determine (a scratch register  *)
(*             at entry, memory never written, a result computed from one) *)
(*   Ptr(o)    the stack address o bytes above the stack pointer at entry  *)
(*   RetAddr   the return address the call pushed                          *)
(*   EntryRbp, EntryRbx   the caller's rbp and rbx                         *)
(* A flag is 0, 1 or 2: left undefined by the last instruction that set    *)
(* the flags, or set from an Unknown.                                      *)
(***************************************************************************)
Unknown == <<>>
RetAddr == <<-2>>
EntryRbp == <<-3>>
EntryRbx == <<-4>>
Ptr(o) == <<-1, o>>
IsPtr(v) == Len(v) = 2
Undef == 2

\* the n bytes at offset i of code (0-based), <<>> when they are not all there
BytesAt(code, i, n) ==
    IF i < 0 \/ i + n > Len(code) THEN <<>> ELSE SubSeq(code, i + 1, i + n)

\* the instruction at offset rip: mnemonic, length, immediate field
Decode(code, rip) ==
    LET b1 == BytesAt(code, rip, 1)
        b2 == BytesAt(code, rip, 2)
        b3 == BytesAt(code, rip, 3)
        b4 == BytesAt(code, rip, 4)
        I(m, n) == [mn |-> m, len |-> n, imm |-> <<>>]
        F(m, k, n) == IF BytesAt(code, rip + k, n) = <<>>
                      THEN [mn |-> "bad", len |-> 0, imm |-> <<>>]
                      ELSE [mn |-> m, len |-> k + n, imm |-> BytesAt(code, rip + k, n)]
    IN  CASE b1 = <<85>> -> I("push_rbp", 1)
          [] b1 = <<93>> -> I("pop_rbp", 1)
          [] b1 = <<195>> -> I("ret", 1)
          [] b1 = <<80>> -> I("push_rax", 1)
          [] b1 = <<83>> -> I("push_rbx", 1)
          [] b1 = <<88>> -> I("pop_rax", 1)
          [] b1 = <<91>> -> I("pop_rbx", 1)
          [] b1 = <<233>> -> F("jmp", 1, 4)
          [] b2 = <<15, 133>> -> F("jnz", 2, 4)
          [] b2 = <<15, 132>> -> F("jz", 2, 4)
          [] b2 = <<72, 184>> -> F("mov_rax_imm", 2, 8)
          [] b2 = <<72, 153>> -> I("cqo", 2)
          [] b3 = <<72, 137, 229>> -> I("mov_rbp_rsp", 3)
          [] b3 = <<72, 137, 236>> -> I("mov_rsp_rbp", 3)
          [] b3 = <<72, 129, 236>> -> F("sub_rsp_imm", 3, 4)
          [] b3 = <<72, 1, 216>> -> I("add", 3)
          [] b3 = <<72, 41, 216>> -> I("sub", 3)
          [] b3 = <<72, 33, 216>> -> I("and", 3)
          [] b3 = <<72, 9, 216>> -> I("or", 3)
          [] b3 = <<72, 49, 216>> -> I("xor", 3)
          [] b3 = <<72, 247, 251>> -> I("idiv_rbx", 3)
          [] b3 = <<72, 137, 208>> -> I("mov_rax_rdx", 3)
          [] b3 = <<72, 137, 217>> -> I("mov_rcx_rbx", 3)
          [] b3 = <<72, 211, 224>> -> I("shl_rax_cl", 3)
          [] b3 = <<72, 211, 248>> -> I("sar_rax_cl", 3)
          [] b3 = <<72, 57, 216>> -> I("cmp", 3)
          [] b3 = <<72, 49, 192>> -> I("xor_rax_rax", 3)
          [] b3 = <<15, 148, 192>> -> I("sete", 3)
          [] b3 = <<15, 149, 192>> -> I("setne", 3)
          [] b3 = <<15, 156, 192>> -> I("setl", 3)
          [] b3 = <<15, 157, 192>> -> I("setge", 3)
          [] b3 = <<15, 158, 192>> -> I("setle", 3)
          [] b3 = <<15, 159, 192>> -> I("setg", 3)
          [] b3 = <<72, 247, 208>> -> I("not", 3)
          [] b3 = <<72, 247, 216>> -> I("neg", 3)
          [] b3 = <<72, 133, 192>> -> I("test", 3)
          [] b3 = <<72, 137, 133>> -> F("mov_mem_rax", 3, 4)
          [] b3 = <<72, 139, 133>> -> F("mov_rax_mem", 3, 4)
          [] b4 = <<72, 139, 4, 36>> -> I("mov_rax_top", 4)
          [] b4 = <<72, 15, 175, 195>> -> I("imul", 4)
          [] OTHER -> [mn |-> "bad", len |-> 0, imm |-> <<>>]

\* the machine when execute calls the region: the call pushed the return
\* address; rax, rcx and rdx are scratch
EntryMachine ==
    [rip |-> 0, rax |-> Unknown, rbx |-> EntryRbx, rcx |-> Unknown,
     rdx |-> Unknown, rsp |-> Ptr(0), rbp |-> EntryRbp,
     zf |-> Undef, sf |-> Undef, of |-> Undef,
     mem |-> (0 :> RetAddr), status |-> "run"]

ReadCell(m, o) == IF o \in DOMAIN m.mem THEN m.mem[o] ELSE Unknown
WriteCell(m, o, v) ==
    [m EXCEPT !.mem = [a \in DOMAIN @ \cup {o} |-> IF a = o THEN v ELSE @[a]]]

\* outside the emitted instruction stream, or an access the model does not
\* follow: what happens next is not determined by the program
Wild(m) == [m EXCEPT !.status = "wild"]
\* a hardware exception (#DE): the process is killed by the signal
Trap(m) == [m EXCEPT !.status = "trap"]

Push(m, v) ==
    IF ~IsPtr(m.rsp) THEN Wild(m)
    ELSE LET o == m.rsp[2] - 8
         IN  [WriteCell(m, o, v) EXCEPT !.rsp = Ptr(o)]

\* the value popped and the machine after the pop
PopVal(m) == IF IsPtr(m.rsp) THEN ReadCell(m, m.rsp[2]) ELSE Unknown
PopRsp(m) == IF IsPtr(m.rsp) THEN [m EXCEPT !.rsp = Ptr(@[2] + 8)] ELSE Wild(m)

\* flags of a result: zf and sf from the value, of as given
FlagsOf(m, r, o) ==
    IF IsWord(r)
    THEN [m EXCEPT !.zf = IF IsZero64(r) THEN 1 ELSE 0, !.sf = SignBit(r), !.of = o]
    ELSE [m EXCEPT !.zf = Undef, !.sf = Undef, !.of = Undef]
NoFlags(m) == [m EXCEPT !.zf = Undef, !.sf = Undef, !.of = Undef]

Bin(f(_, _), a, b) == IF IsWord(a) /\ IsWord(b) THEN f(a, b) ELSE Unknown
AddOf(a, b, r) == IF SignBit(a) = SignBit(b) /\ SignBit(r) # SignBit(a) THEN 1 ELSE 0
SubOf(a, b, r) == IF SignBit(a) # SignBit(b) /\ SignBit(r) # SignBit(a) THEN 1 ELSE 0

FlagVals(f) == IF f = Undef THEN {0, 1} ELSE {f}
\* the values a condition code can take in m
Cond(m, cc) ==
    { CASE cc = "e"  -> z = 1
        [] cc = "ne" -> z = 0
        [] cc = "l"  -> s # o
        [] cc = "ge" -> s = o
        [] cc = "le" -> z = 1 \/ s # o
        [] cc = "g"  -> z = 0 /\ s = o
      : z \in FlagVals(m.zf), s \in FlagVals(m.sf), o \in FlagVals(m.of) }

SetCC(m, cc) ==
    { IF IsWord(m.rax)
      THEN [m EXCEPT !.rax = [i \in 1..8 |-> IF i = 1 THEN (IF t THEN 1 ELSE 0) ELSE @[i]]]
      ELSE m : t \in Cond(m, cc) }

Jcc(m, cc, d) ==
    { IF t THEN [m EXCEPT !.rip = @ + I32FromLe(d.imm)] ELSE m : t \in Cond(m, cc) }

\* (a shift count masked to 5 bits, as for a 32-bit operand)
CountOfFive(v) == v[1] % 32

CountOf(v) == v[1] % 64

\* idiv rbx on rdx:rax.  The quotient of MinI64 by -1 does not fit: #DE, as
\* for a zero divisor.
Idiv(m) ==
    IF ~(IsWord(m.rax) /\ IsWord(m.rbx) /\ IsWord(m.rdx))
    THEN {Trap(m), NoFlags([m EXCEPT !.rax = Unknown, !.rdx = Unknown])}
    ELSE IF IsZero64(m.rbx) THEN {Trap(m)}
    ELSE IF m.rdx # (IF SignBit(m.rax) = 1 THEN W(-1) ELSE Zero64) THEN {Wild(m)}
    ELSE IF m.rax = MinI64 /\ m.rbx = W(-1) THEN {Trap(m)}
    ELSE LET qr == SDivRem(m.rax, m.rbx)
         IN  {NoFlags([m EXCEPT !.rax = qr.quot, !.rdx = qr.rem])}

\* a load or store at [rbp + disp32]
FrameAddr(m, d) == m.rbp[2] + I32FromLe(d.imm)
FrameOk(m, d) == IsPtr(m.rbp) /\ FrameAddr(m, d) % 8 = 0

\* the machine states after the instruction d, rip already past it
Exec(m, d) ==
    CASE d.mn = "bad" -> {Wild(m)}
      [] d.mn = "push_rbp" -> {Push(m, m.rbp)}
      [] d.mn = "push_rax" -> {Push(m, m.rax)}
      [] d.mn = "push_rbx" -> {Push(m, m.rbx)}
      [] d.mn = "pop_rbp" -> {[PopRsp(m) EXCEPT !.rbp = PopVal(m)]}
      [] d.mn = "pop_rax" -> {[PopRsp(m) EXCEPT !.rax = PopVal(m)]}
      [] d.mn = "pop_rbx" -> {[PopRsp(m) EXCEPT !.rbx = PopVal(m)]}
      [] d.mn = "ret" ->
           {IF PopVal(m) = RetAddr THEN [PopRsp(m) EXCEPT !.status = "ret"] ELSE Wild(m)}
      [] d.mn = "jmp" -> {[m EXCEPT !.rip = @ + I32FromLe(d.imm)]}
      [] d.mn = "jnz" -> Jcc(m, "ne", d)
      [] d.mn = "jz" -> Jcc(m, "e", d)
      [] d.mn = "mov_rax_imm" -> {[m EXCEPT !.rax = d.imm]}
      [] d.mn = "cqo" ->
           {[m EXCEPT !.rdx = IF ~IsWord(m.rax) THEN Unknown
                               ELSE IF SignBit(m.rax) = 1 THEN W(-1) ELSE Zero64]}
      [] d.mn = "mov_rbp_rsp" -> {[m EXCEPT !.rbp = m.rsp]}
      [] d.mn = "mov_rsp_rbp" -> {[m EXCEPT !.rsp = m.rbp]}
      [] d.mn = "sub_rsp_imm" ->
           {IF IsPtr(m.rsp)
            THEN NoFlags([m EXCEPT !.rsp = Ptr(@[2] - I32FromLe(d.imm))])
            ELSE Wild(m)}
      [] d.mn = "add" ->
           {LET r == Bin(Add64, m.rax, m.rbx)
            IN  FlagsOf([m EXCEPT !.rax = r], r,
                        IF IsWord(r) THEN AddOf(m.rax, m.rbx, r) ELSE Undef)}
      [] d.mn = "sub" ->
           {LET r == Bin(Sub64, m.rax, m.rbx)
            IN  FlagsOf([m EXCEPT !.rax = r], r,
                        IF IsWord(r) THEN SubOf(m.rax, m.rbx, r) ELSE Undef)}
      [] d.mn = "cmp" ->
           {LET r == Bin(Sub64, m.rax, m.rbx)
            IN  FlagsOf(m, r, IF IsWord(r) THEN SubOf(m.rax, m.rbx, r) ELSE Undef)}
      [] d.mn = "imul" -> {NoFlags([m EXCEPT !.rax = Bin(Mul64, m.rax, m.rbx)])}
      [] d.mn = "and" ->
           {LET r == Bin(And64, m.rax, m.rbx) IN FlagsOf([m EXCEPT !.rax = r], r, 0)}
      [] d.mn = "or" ->
           {LET r == Bin(Or64, m.rax, m.rbx) IN FlagsOf([m EXCEPT !.rax = r], r, 0)}
      [] d.mn = "xor" ->
           {LET r == Bin(Xor64, m.rax, m.rbx) IN FlagsOf([m EXCEPT !.rax = r], r, 0)}
      [] d.mn = "xor_rax_rax" -> {FlagsOf([m EXCEPT !.rax = Zero64], Zero64, 0)}
      [] d.mn = "test" -> {FlagsOf(m, m.rax, 0)}
      [] d.mn = "idiv_rbx" -> Idiv(m)
      [] d.mn = "mov_rax_rdx" -> {[m EXCEPT !.rax = m.rdx]}
      [] d.mn = "mov_rcx_rbx" -> {[m EXCEPT !.rcx = m.rbx]}
      [] d.mn = "shl_rax_cl" ->
           {IF ~(IsWord(m.rax) /\ IsWord(m.rcx)) THEN NoFlags([m EXCEPT !.rax = Unknown])
            ELSE IF CountOf(m.rcx) = 0 THEN m
            ELSE LET r == Shl64(m.rax, CountOf(m.rcx))
                 IN  FlagsOf([m EXCEPT !.rax = r], r, Undef)}
      [] d.mn = "sar_rax_cl" ->
           {IF ~(IsWord(m.rax) /\ IsWord(m.rcx)) THEN NoFlags([m EXCEPT !.rax = Unknown])
            ELSE IF CountOf(m.rcx) = 0 THEN m
            ELSE LET r == Sar64(m.rax, CountOf(m.rcx))
                 IN  FlagsOf([m EXCEPT !.rax = r], r, Undef)}
      [] d.mn \in {"sete", "setne", "setl", "setge", "setle", "setg"} ->
           SetCC(m, CASE d.mn = "sete" -> "e" [] d.mn = "setne" -> "ne"
                      [] d.mn = "setl" -> "l" [] d.mn = "setge" -> "ge"
                      [] d.mn = "setle" -> "le" [] d.mn = "setg" -> "g")
      [] d.mn = "not" -> {[m EXCEPT !.rax = IF IsWord(@) THEN Not64(@) ELSE Unknown]}
      [] d.mn = "neg" ->
           {LET r == IF IsWord(m.rax) THEN Neg64(m.rax) ELSE Unknown
            IN  FlagsOf([m EXCEPT !.rax = r], r, IF m.rax = MinI64 THEN 1 ELSE 0)}
      [] d.mn = "mov_mem_rax" ->
           {IF FrameOk(m, d) THEN WriteCell(m, FrameAddr(m, d), m.rax) ELSE Wild(m)}
      [] d.mn = "mov_rax_mem" ->
           {IF FrameOk(m, d) THEN [m EXCEPT !.rax = ReadCell(m, FrameAddr(m, d))]
            ELSE Wild(m)}
      [] d.mn = "mov_rax_top" ->
           {IF IsPtr(m.rsp) THEN [m EXCEPT !.rax = PopVal(m)] ELSE Wild(m)}

\* one instruction of the code: fetch and decode at rip, advance rip, execute
MachineStep(code, m) ==
    LET d == Decode(code, m.rip)
    IN  Exec([m EXCEPT !.rip = @ + d.len], d)

(***************************************************************************)
(* The programs the driver compiles: those of main.rs and small families.  *)
(***************************************************************************)
test == <<Load(100), Load(200), Op("Add"), Op("Ret")>>
test2 == <<Load(10), Load(5), Op("Add"), Load(3), Op("Mul"), Load(2), Op("Sub"),
           Op("Ret")>>
test3 == <<Load(42), Op("Dup"), Load(10), Op("Swap"), Op("Add"), Op("Mul"), Op("Ret")>>
test4 == <<Load(25), Store(0), Load(17), Store(1), LoadVar(0), LoadVar(1), Op("Add"),
           Op("Ret")>>
test5 == <<Load(5), Load(2), Op("Shl"), Load(3), Load(7), Op("Band"), Op("Bor"),
           Op("Ret")>>
jump_test_zero == <<Load(0), JmpIfNot(1), Load(999), Label(1), Load(42), Op("Ret")>>
jump_test_one == <<Load(1), JmpIfNot(1), Load(999), Label(1), Load(42), Op("Add"),
                   Op("Ret")>>
cmp_test == <<Load(1), Load(5), Op("Lte"), Op("Ret")>>
loop_test == <<Load(0), Store(0), Label(1), LoadVar(0), Load(10), Op("Gte"), JmpIf(2),
               LoadVar(0), Load(1), Op("Add"), Store(0), Jmp(1), Label(2), LoadVar(0),
               Op("Ret")>>
MainPrograms ==
    {test, test2, test3, test4, test5, jump_test_zero, jump_test_one, cmp_test,
     loop_test}

Vals == (-MaxVal)..MaxVal
ArithOps == {"Add", "Sub", "Mul", "Div", "Mod"}
CmpOps == {"Eq", "Ne", "Lt", "Gt", "Lte", "Gte"}
LogicOps == {"And", "Or"}
BitOps == {"Band", "Bor", "Bxor", "Shl", "Shr"}
UnaryOps == {"Neg", "Not", "Bnot"}

TwoOp(a, b, o) == <<Load(a), Load(b), Op(o), Op("Ret")>>
OneOp(a, o) == <<Load(a), Op(o), Op("Ret")>>
TwoOpPrograms ==
    {TwoOp(a, b, o) : a \in Vals, b \in Vals,
                      o \in ArithOps \cup CmpOps \cup LogicOps \cup BitOps}
OneOpPrograms == {OneOp(a, o) : a \in Vals, o \in UnaryOps}

\* nested arithmetic, and arithmetic at the ends of the 64-bit range
\* (2^30 * 2^30 * 8 = 2^63 wraps to the minimum)
Nested(o1, o2) == <<Load(7), Load(-3), Load(2), Op(o1), Op(o2), Op("Ret")>>
MinThen(b, o) ==
    <<Load(1073741824), Load(1073741824), Op("Mul"), Load(8), Op("Mul"), Load(b),
      Op(o), Op("Ret")>>
ArithPrograms ==
    {Nested(o1, o2) : o1 \in ArithOps, o2 \in ArithOps}
      \cup {MinThen(b, o) : b \in {-1, 1, 3}, o \in ArithOps}

\* a value stored to a slot and loaded back, with other stack and variable
\* traffic in between
Slots == {0, 1, 127}
Between(j) ==
    {<<>>,
     <<Load(5), Store(j)>>,
     <<Load(5), Load(6), Op("Add"), Op("Pop")>>,
     <<Load(5), Op("Dup"), Op("Swap"), Op("Pop"), Op("Pop")>>,
     <<Load(5), Store(128)>>,
     <<Op("Pop"), Load(5)>>,
     <<Load(5), Op("Swap"), Op("Pop")>>}
StoreLoad(v, i, mid) == <<Load(v), Store(i)>> \o mid \o <<LoadVar(i), Op("Ret")>>
VarPrograms ==
    {StoreLoad(v, i, mid) : v \in {9}, i \in Slots,
                            mid \in UNION {Between(j) : j \in Slots}}

\* jumps: to a label the program does not define, forward, backward
JumpPrograms ==
    {<<Load(0), JmpIfNot(7), Load(42), Op("Ret")>>,
     <<Jmp(3), Load(1), Op("Ret")>>,
     <<Load(1), JmpIf(2), Load(5), Op("Ret"), Label(2), Load(6), Op("Ret")>>,
     <<Load(3), Jmp(2), Load(4), Label(2), Op("Ret")>>,
     <<Load(3), Op("Halt"), Load(4), Jmp(9), Op("Ret")>>,
     <<Load(3), Call(1), Op("Ret")>>,
     <<Load(3), Op("Write"), Op("Read"), Op("WriteChar"), Op("Ret")>>,
     <<Load(4)>>,
     <<>>}

\* programs that return without having put a value of their own in rax, or
\* that read a slot they never stored
EntryPrograms ==
    {<<Op("Halt")>>,
     <<LoadVar(0), Op("Ret")>>,
     <<LoadVar(1), Load(1), Op("Add"), Op("Ret")>>,
     <<Load(7), Store(0), LoadVar(0), Op("Halt")>>}

\* a conditional jump over Load(999) that tests v, above a 7 on the stack
Branch(j, v) ==
    <<Load(7), Load(v), Ins(j, 1), Load(999), Label(1), Op("Add"), Op("Ret")>>
BranchPrograms ==
    {Branch(j, v) : j \in {"JmpIf", "JmpIfNot"}, v \in -MaxVal..MaxVal}

\* Dup, and Swap, above a 7 on the stack
DupOf(b) == <<Load(7), Load(b), Op("Dup"), Op("Ret")>>
SwapOf(b, c) == <<Load(7), Load(b), Load(c), Op("Swap"), Op("Ret")>>
StackPrograms ==
    {DupOf(b) : b \in Vals} \cup {SwapOf(b, c) : b \in Vals, c \in Vals}

\* shifts of 5 and -5 by counts below and above 63
ShiftPairs == {-5, 5} \X {3, 9, 64, 65}
ShiftPrograms == {TwoOp(ab[1], ab[2], o) : ab \in ShiftPairs, o \in {"Shl", "Shr"}}

\* stores to the slot ids 4294967295 and 4294967294.  A slot id is a u32 that
\* emit_store casts with `id as i32`; the model writes such an id as the i32
\* the cast gives, here -1 and -2, whose offsets (id + 1) * 8 are 0 and -8:
\* the cells the prologue's push rbp and the caller's call wrote.
WildStore(id) == <<Load(5), Store(id), Load(6), Op("Ret")>>
WildPrograms == {WildStore(-1), WildStore(-2)}

Programs ==
    MainPrograms \cup WildPrograms \cup ShiftPrograms \cup TwoOpPrograms \cup OneOpPrograms \cup ArithPrograms
      \cup VarPrograms \cup JumpPrograms \cup EntryPrograms \cup BranchPrograms
      \cup StackPrograms

\* the programs of the runs that call compile more than once
ReusePrograms ==
    {test, test4, jump_test_zero, jump_test_one,
     <<Load(0), JmpIfNot(7), Load(42), Op("Ret")>>,
     <<Label(7), Load(3), Op("Ret")>>,
     <<Load(1), Load(2), Load(3), Load(4), Jmp(1), Label(1), Op("Ret")>>,
     <<>>}

(***************************************************************************)
(* The process: main calls compile and execute on one Compiler and one     *)
(* Invoker (main.rs 6-7).                                                  *)
(*   compiler  the Compiler                                                *)
(*   program   the Program of the last compile call                       *)
(*   compiled  the Vec<u8> the last compile returned                       *)
(*   compiles  the number of compile calls so far                          *)
(*   pc        where the process is: "main" between calls; "mmap", "copy", *)
(*             "mprotect", "call", "running", "munmap" inside execute;     *)
(*             "compile_panicked", "execute_panicked" after a panic!;      *)
(*             "killed" by the signal of a hardware exception; "undefined" *)
(*             once the generated code has left its instruction stream     *)
(*   code      execute's argument                                          *)
(*   region    the mapping of execute: mapped, prot, size, bytes           *)
(*   machine   registers, flags and stack of the generated code's run      *)
(*   steps     machine instructions executed in this run                   *)
(*   result    what the last execute returned (NoResult before)            *)
(***************************************************************************)
VARIABLES compiler, program, compiled, compiles, pc, code, region, machine,
          steps, result

vars == <<compiler, program, compiled, compiles, pc, code, region, machine,
          steps, result>>

NoResult == <<-9>>
NoRegion == [mapped |-> FALSE, prot |-> "none", size |-> 0, bytes |-> <<>>]

Init ==
    /\ compiler = NewCompiler
    /\ program = <<>>
    /\ compiled = <<>>
    /\ compiles = 0
    /\ pc = "main"
    /\ code = <<>>
    /\ region = NoRegion
    /\ machine = EntryMachine
    /\ steps = 0
    /\ result = NoResult

\* compiler.compile(&p)
Compile(p) ==
    /\ pc = "main"
    /\ LET c == compile(compiler, p)
       IN  /\ compiler' = c
           /\ compiled' = IF Panicked(c) THEN <<>> ELSE c.bytecode
           /\ pc' = IF Panicked(c) THEN "compile_panicked" ELSE "main"
    /\ program' = p
    /\ compiles' = compiles + 1
    /\ UNCHANGED <<code, region, machine, steps, result>>

\* the first compile call on the Compiler
FirstCompile == compiles = 0 /\ \E p \in Programs : Compile(p)

\* a later compile call on the same Compiler
Recompile ==
    compiles > 0 /\ compiles < MaxCompiles /\ \E p \in ReusePrograms : Compile(p)

\* the first compile call of a run that calls compile more than once
FirstCompileReuse == compiles = 0 /\ \E p \in ReusePrograms : Compile(p)

\* invoker.execute(&bytes) is entered, with what compile returned
Execute ==
    /\ pc = "main"
    /\ compiled # <<>>
    /\ code' = compiled
    /\ pc' = "mmap"
    /\ UNCHANGED <<compiler, program, compiled, compiles, region, machine, steps, result>>

\* csize = (code.len() + psize - 1) & !(psize - 1)
PageSize == 4096
CSize(n) == ((n + PageSize - 1) \div PageSize) * PageSize

\* libc::mmap(null, csize, PROT_READ | PROT_WRITE, ...), which the system may
\* refuse: MAP_FAILED panics
Mmap ==
    /\ pc = "mmap"
    /\ \/ /\ CSize(Len(code)) > 0
          /\ region' = [mapped |-> TRUE, prot |-> "rw", size |-> CSize(Len(code)),
                        bytes |-> <<>>]
          /\ pc' = "copy"
       \/ /\ region' = region
          /\ pc' = "execute_panicked"
    /\ UNCHANGED <<compiler, program, compiled, compiles, code, machine, steps, result>>

\* std::ptr::copy_nonoverlapping(code, p, code.len())
Copy ==
    /\ pc = "copy"
    /\ region' = [region EXCEPT !.bytes = code]
    /\ pc' = "mprotect"
    /\ UNCHANGED <<compiler, program, compiled, compiles, code, machine, steps, result>>

\* PROT_WRITE and PROT_EXEC among a region's permissions
Writable(r) == r.prot \in {"rw", "rwx"}
Executable(r) == r.prot \in {"rx", "rwx"}

\* mprotect adding PROT_EXEC without taking PROT_WRITE away
MprotectKeepsWrite ==
    /\ pc = "mprotect"
    /\ \/ /\ region' = [region EXCEPT !.prot = "rwx"]
          /\ pc' = "call"
       \/ /\ region' = region
          /\ pc' = "execute_panicked"
    /\ UNCHANGED <<compiler, program, compiled, compiles, code, machine, steps, result>>

\* libc::mprotect(p, csize, PROT_READ | PROT_EXEC); a failure panics
Mprotect ==
    /\ pc = "mprotect"
    /\ \/ /\ region' = [region EXCEPT !.prot = "rx"]
          /\ pc' = "call"
       \/ /\ region' = region
          /\ pc' = "execute_panicked"
    /\ UNCHANGED <<compiler, program, compiled, compiles, code, machine, steps, result>>

\* f(): the region is called
CallRegion ==
    /\ pc = "call"
    /\ machine' = EntryMachine
    /\ steps' = 0
    /\ pc' = "running"
    /\ UNCHANGED <<compiler, program, compiled, compiles, code, region, result>>

\* the processor executes one instruction of the region
Step ==
    /\ pc = "running"
    /\ steps < MaxSteps
    /\ \E m \in MachineStep(region.bytes, machine) :
          /\ machine' = m
          /\ pc' = CASE m.status = "run" -> "running"
                     [] m.status = "ret" -> "munmap"
                     [] m.status = "trap" -> "killed"
                     [] m.status = "wild" -> "undefined"
    /\ steps' = steps + 1
    /\ UNCHANGED <<compiler, program, compiled, compiles, code, region, result>>

\* the i64 that f() hands back when rax holds v: v itself when the program
\* determined it; otherwise whatever the entry state left there, which is any
\* value (two stand for all)
Returns(v) == IF IsWord(v) THEN {v} ELSE {W(0), W(1)}

\* f() returned rax; libc::munmap(p, csize); execute returns
Munmap ==
    /\ pc = "munmap"
    /\ region' = [region EXCEPT !.mapped = FALSE, !.prot = "none"]
    /\ result' \in Returns(machine.rax)
    /\ pc' = "main"
    /\ UNCHANGED <<compiler, program, compiled, compiles, code, machine, steps>>

Invoke == Execute \/ Mmap \/ Copy \/ Mprotect \/ CallRegion \/ Step \/ Munmap

\* one program compiled by a new Compiler and executed
Next == FirstCompile \/ Invoke
Spec == Init /\ [][Next]_vars

\* several programs compiled by one Compiler, as main does
NextReuse == FirstCompileReuse \/ Recompile \/ Invoke
SpecReuse == Init /\ [][NextReuse]_vars

(***************************************************************************)
(* What the claims speak of.                                               *)
(***************************************************************************)
Terminators == {"Ret", "Halt"}
JumpOps == {"Jmp", "JmpIf", "JmpIfNot"}

\* the index of the first Ret or Halt, Len + 1 when there is none
FirstTerm(insts) ==
    IF \E k \in 1..Len(insts) : insts[k].op \in Terminators
    THEN CHOOSE k \in 1..Len(insts) :
           /\ insts[k].op \in Terminators
           /\ \A j \in 1..(k - 1) : insts[j].op \notin Terminators
    ELSE Len(insts) + 1

\* the length of the output buffer when compile's emission loop reaches
\* instruction k: the offset of the first byte emitted for it
Start(insts, k) ==
    Len(EmitFrom(emit_fn_prologue(NewCompiler), insts, 1, k - 1).bytecode)

\* the instructions Label(l) of a program
LabelsOf(insts, l) == {j \in 1..Len(insts) : insts[j] = Label(l)}

\* compile has returned its byte sequence
Compiled == compiles > 0 /\ pc # "compile_panicked"
\* the generated function has returned to execute
Returned == pc = "munmap"

Bool(t) == W(IF t THEN 1 ELSE 0)

\* operands an instruction pops and the change of the stack's depth
Needs(o) ==
    CASE o \in {"Load", "LoadVar", "Label", "Jmp", "Halt", "Read", "Call"} -> 0
      [] o \in {"Dup", "Pop", "Store", "Ret", "Write", "WriteChar", "JmpIf", "JmpIfNot"}
           \cup UnaryOps -> 1
      [] OTHER -> 2
Effect(o) ==
    CASE o \in {"Load", "LoadVar", "Dup"} -> 1
      [] o \in {"Pop", "Store", "Ret", "JmpIf", "JmpIfNot"} \cup ArithOps \cup CmpOps
           \cup LogicOps \cup BitOps -> -1
      [] OTHER -> 0

RECURSIVE DepthOk(_, _, _)
\* a straight-line program never pops an operand stack that is too short
DepthOk(insts, i, d) ==
    IF i > Len(insts) THEN TRUE
    ELSE /\ Needs(insts[i].op) <= d
         /\ (insts[i].op \in Terminators \/ DepthOk(insts, i + 1, d + Effect(insts[i].op)))
NoUnderflow(insts) == DepthOk(insts, 1, 0)

(***************************************************************************)
(* A reference evaluator of straight-line arithmetic: each binary op pops  *)
(* b, then a, and pushes a op b, wrapping to 64 bits.                      *)
(***************************************************************************)
RefOp(o, a, b) ==
    CASE o = "Add" -> Add64(a, b)
      [] o = "Sub" -> Sub64(a, b)
      [] o = "Mul" -> Mul64(a, b)
      [] o = "Div" -> SDivRem(a, b).quot
      [] o = "Mod" -> SDivRem(a, b).rem

RECURSIVE RefEval(_, _, _)
\* [ok, val, minneg]: ok unless the stack underflows or a divisor is zero;
\* minneg when a division divided the minimum value by -1
RefEval(insts, i, st) ==
    LET n == Len(st)
        bad == [ok |-> FALSE, val |-> Unknown, minneg |-> FALSE]
    IN  IF i > Len(insts) THEN bad
        ELSE IF insts[i].op = "Load"
             THEN RefEval(insts, i + 1, Append(st, W(insts[i].arg)))
        ELSE IF insts[i].op = "Ret"
             THEN IF n < 1 THEN bad ELSE [ok |-> TRUE, val |-> st[n], minneg |-> FALSE]
        ELSE IF insts[i].op \in ArithOps
             THEN IF n < 2 THEN bad
                  ELSE IF insts[i].op \in {"Div", "Mod"} /\ IsZero64(st[n]) THEN bad
                  ELSE LET r == RefEval(insts, i + 1,
                                  Append(SubSeq(st, 1, n - 2),
                                         RefOp(insts[i].op, st[n - 1], st[n])))
                       IN  [r EXCEPT !.minneg =
                              @ \/ (insts[i].op \in {"Div", "Mod"}
                                      /\ st[n - 1] = MinI64 /\ st[n] = W(-1))]
        ELSE bad

ArithOnly(insts) ==
    /\ Len(insts) > 0
    /\ insts[Len(insts)].op = "Ret"
    /\ \A k \in 1..(Len(insts) - 1) : insts[k].op \in {"Load"} \cup ArithOps

(***************************************************************************)
(* Claims.                                                                 *)
(***************************************************************************)

\* C1: when compile has returned, the label table maps the id of every
\* Label the emission loop reached (and the program defines once) to the
\* length the output buffer had when the loop reached that Label.
C1_LabelOffsetsAsEmitted ==
    Compiled =>
      \A k \in 1..Len(program) :
        (/\ program[k].op = "Label"
         /\ k < FirstTerm(program)
         /\ Cardinality(LabelsOf(program, program[k].arg)) = 1)
        => /\ program[k].arg \in DOMAIN compiler.labels
           /\ compiler.labels[program[k].arg] = Start(program, k)

\* C2: when the generated code executes the jz of a JmpIfNot(L) with the
\* zero flag set (the popped value was zero) and Label(L) comes later in the
\* program, the next instruction executed is the first one emitted after
\* Label(L).
C2_ForwardBranchTaken ==
    [][\A k \in 1..Len(program) : \A j \in (k + 1)..Len(program) :
         (/\ pc = "running"
          /\ k < FirstTerm(program)
          /\ program[k].op = "JmpIfNot"
          /\ LabelsOf(program, program[k].arg) = {j}
          /\ machine.rip = Start(program, k + 1) - 6
          /\ machine.zf = 1)
         => (pc' = "running" /\ machine'.rip = Start(program, j))]_vars

\* C3: loop_test compiles, and what its execution returns is 10.
C3_LoopReturnsTen ==
    program = loop_test =>
      /\ pc # "compile_panicked"
      /\ (Returned => machine.rax = W(10))

\* C4: whatever was compiled before on the same Compiler, compile returns
\* what it returns on a new Compiler.
C4_RecompileAsFresh ==
    compiles > 0 =>
      LET fresh == compile(NewCompiler, program)
      IN  IF Panicked(fresh) THEN pc = "compile_panicked"
          ELSE pc # "compile_panicked" /\ compiled = fresh.bytecode

\* C5: compile returns no byte sequence for a program that jumps (before its
\* first terminator) to a label it does not define.
C5_UndefinedLabelIsError ==
    Compiled =>
      \A k \in 1..Len(program) :
        (k < FirstTerm(program) /\ program[k].op \in JumpOps)
        => LabelsOf(program, program[k].arg) # {}

\* C6: compile never reaches the default branch of emit_binop, emit_cmp or
\* emit_unary.
C6_NoUnknownOp == compiler.panicked \notin {"unknown binop op", "unknown cmp op"}

\* C7: the code of Eq, Ne, Lt, Gt pushes 1 when the signed relation holds
\* between a (pushed first) and b (pushed last), and 0 otherwise.
C7_ComparisonResult ==
    \A a \in Vals, b \in Vals :
      Returned =>
        /\ program = TwoOp(a, b, "Eq") => machine.rax = Bool(a = b)
        /\ program = TwoOp(a, b, "Ne") => machine.rax = Bool(a # b)
        /\ program = TwoOp(a, b, "Lt") => machine.rax = Bool(a < b)
        /\ program = TwoOp(a, b, "Gt") => machine.rax = Bool(a > b)

\* C8 as stated: a program of Load, Add, Sub, Mul, Div, Mod ending in Ret,
\* which never underflows the operand stack nor divides by zero, runs to its
\* return and returns what the reference evaluator computes.
C8_ArithMatchesReference_Stated ==
    ArithOnly(program) =>
      LET ref == RefEval(program, 1, <<>>)
      IN  ref.ok =>
            /\ pc \notin {"killed", "undefined"}
            /\ (Returned => machine.rax = ref.val)

\* C8, amended: the same, for programs that also never divide the minimum
\* 64-bit value by -1.
C8_ArithMatchesReference ==
    ArithOnly(program) =>
      LET ref == RefEval(program, 1, <<>>)
      IN  (ref.ok /\ ~ref.minneg) =>
            /\ pc \notin {"killed", "undefined"}
            /\ (Returned => machine.rax = ref.val)

C8_Witness ==
    /\ Returned
    /\ program = Nested("Mod", "Sub")
    /\ machine.rax = W(8)

\* C9: the code of And leaves a nonzero value exactly when both operands are
\* nonzero, the code of Or exactly when one of them is.
C9_LogicalAndOr ==
    \A a \in Vals, b \in Vals :
      Returned =>
        /\ program = TwoOp(a, b, "And") => (machine.rax # Zero64) = (a # 0 /\ b # 0)
        /\ program = TwoOp(a, b, "Or") => (machine.rax # Zero64) = (a # 0 \/ b # 0)

\* the value of the last Store(i) of a program in which a Load precedes
\* every Store
LastStored(insts, i) ==
    LET k == CHOOSE k \in 1..Len(insts) :
               /\ insts[k] = Store(i)
               /\ \A j \in (k + 1)..Len(insts) : insts[j] # Store(i)
    IN  W(insts[k - 1].arg)

\* the stack address of slot id: (id + 1) * 8 below the frame base, which is
\* 8 below the stack pointer at entry
SlotAddr(id) == -8 - (id + 1) * 8

\* what C10 says of a program that stores to slot i and loads it back
VarPersists(i) ==
    /\ pc \notin {"killed", "undefined"}
    /\ Returned =>
         /\ machine.rax = LastStored(program, i)
         /\ ReadCell(machine, SlotAddr(i)) = LastStored(program, i)

\* C10 as stated: LoadVar(i), i in 0..127, reads what the last Store(i) wrote,
\* at (i+1)*8 below the frame base, whatever pushes, pops and stores to other
\* slots came in between.
C10_VarPersists_Stated ==
    \A i \in Slots, v \in {9}, mid \in UNION {Between(j) : j \in Slots} :
      program = StoreLoad(v, i, mid) => VarPersists(i)

\* C10, amended: the same, in a program that never pops an empty operand
\* stack.
C10_VarPersists ==
    /\ \A i \in Slots, v \in {9}, mid \in UNION {Between(j) : j \in Slots} :
         (program = StoreLoad(v, i, mid) /\ NoUnderflow(program)) => VarPersists(i)
    /\ (program = test4 /\ Returned) => machine.rax = W(42)

C10_Witness ==
    /\ Returned
    /\ program = StoreLoad(9, 127, <<Load(5), Load(6), Op("Add"), Op("Pop")>>)
    /\ machine.rax = W(9)
    /\ ReadCell(machine, SlotAddr(127)) = W(9)

\* C11: execute releases the region on every exit path: whenever execute has
\* stopped, by returning or by panicking, no region it acquired is still
\* mapped.
C11_RegionReleased ==
    pc \in {"main", "execute_panicked"} => ~region.mapped

\* the states of execute, for C12: the region is never writable and
\* executable at once; it is writable while the code is copied; it holds the
\* code and is executable, not writable, while the code is invoked
WXStates ==
    /\ ~(Writable(region) /\ Executable(region))
    /\ pc = "copy" => (region.mapped /\ Writable(region) /\ region.bytes = <<>>)
    /\ pc \in {"call", "running", "munmap"} =>
         (region.mapped /\ Executable(region) /\ region.bytes = code)

\* the steps of execute, for C12: acquire maps an empty read+write region;
\* bytes are copied only into a writable region; protect turns a region
\* holding the code from read+write to read+execute; the machine runs only
\* in a region that is executable and not writable; release follows invoke
WXSteps ==
    /\ (~region.mapped /\ region'.mapped) =>
         (region'.prot = "rw" /\ region'.bytes = <<>>)
    /\ (region.mapped /\ region'.mapped /\ region'.bytes # region.bytes) =>
         (Writable(region) /\ ~Executable(region) /\ region'.prot = region.prot)
    /\ (region.mapped /\ region'.mapped /\ region'.prot # region.prot) =>
         (region.prot = "rw" /\ region'.prot = "rx" /\ region.bytes = code)
    /\ machine' # machine =>
         (region.mapped /\ Executable(region) /\ ~Writable(region)
            /\ region.bytes = code /\ region' = region)
    /\ (region.mapped /\ ~region'.mapped) =>
         (Executable(region) /\ machine.status = "ret")

\* C12: W^X ordering in execute: acquire read+write, copy while writable,
\* change to read+execute, invoke only after the change, release; the region
\* is never both writable and executable.
C12_WXOrdering == [](WXStates) /\ [][WXSteps]_vars

C12_Witness ==
    /\ pc = "running"
    /\ steps > 0
    /\ region.mapped
    /\ region.prot = "rx"
    /\ region.bytes = compiled

\* C13: a refusal of the operating system to provide or to reprotect the
\* region is reported to execute's caller; execute never panics.
C13_MemoryErrorReported ==
    pc # "execute_panicked"

\* C14: executing the same compiled bytes again returns the same result, and
\* the result is determined by the program: it is never a value the entry
\* state of the call left in a register or in the frame.
C14_SameResultEachTime ==
    /\ [](Returned => IsWord(machine.rax))
    /\ [][(pc = "munmap" /\ result # NoResult) => result' = result]_vars

\* the conditional jump instruction k of the program does not jump on the
\* value v it tests
FallsThrough(k, v) ==
    /\ program[k].op \in {"JmpIf", "JmpIfNot"}
    /\ k < FirstTerm(program)
    /\ IsWord(v)
    /\ \/ program[k].op = "JmpIfNot" /\ v # Zero64
       \/ program[k].op = "JmpIf" /\ v = Zero64

\* C15, one machine instruction at a time: the pop that opens the code of a
\* conditional jump takes the top value off the stack and writes no cell;
\* when the jump does not jump on that value, its jz / jnz leaves the stack
\* as it is and goes on to the code of the next instruction
NotTakenSteps ==
    \A k \in 1..Len(program) :
      (pc = "running" /\ pc' = "running" /\ IsPtr(machine.rsp)
         /\ FallsThrough(k, ReadCell(machine, machine.rsp[2] + 8 *
              (IF machine.rip = Start(program, k) THEN 0 ELSE -1))))
      => /\ machine.rip = Start(program, k) =>
              /\ machine'.rax = ReadCell(machine, machine.rsp[2])
              /\ machine'.rsp = Ptr(machine.rsp[2] + 8)
              /\ machine'.mem = machine.mem
         /\ machine.rip = Start(program, k) + 4 =>
              /\ machine'.rip = Start(program, k + 1)
              /\ machine'.rsp = machine.rsp
              /\ machine'.mem = machine.mem

\* C15: a conditional jump that is not taken pops the value it tests and
\* falls through to the next instruction with the rest of the operand stack
\* unchanged; jump_test_one returns 1041.
C15_BranchNotTaken ==
    /\ [][NotTakenSteps]_vars
    /\ []((Returned /\ program = jump_test_one) => machine.rax = W(1041))
    /\ [](\A j \in {"JmpIf", "JmpIfNot"}, v \in -MaxVal..MaxVal :
            (Returned /\ program = Branch(j, v) /\ ((j = "JmpIf") <=> (v = 0)))
              => machine.rax = W(1006))

C15_Witness ==
    /\ Returned
    /\ program = jump_test_one
    /\ machine.rax = W(1041)

\* C16: compile returns no byte sequence for a program that has a Call
\* before its first terminator.
C16_CallIsError ==
    Compiled =>
      \A k \in 1..Len(program) :
        k < FirstTerm(program) => program[k].op # "Call"

\* the program up to and including its first terminator
UpToTerm(insts) ==
    SubSeq(insts, 1, IF FirstTerm(insts) > Len(insts) THEN Len(insts)
                     ELSE FirstTerm(insts))

\* byte i (from 1) of the buffer lies in the displacement field of one of
\* the relocation sites
InSite(patches, i) ==
    \E q \in 1..Len(patches) : i - 1 >= patches[q][1] /\ i - 1 <= patches[q][1] + 3

\* C17: what compile returns is the prologue, the code of the instructions up
\* to and including the first Ret or Halt, and the epilogue as its last
\* bytes: it has the length, the relocation sites and, outside the
\* displacement fields, the bytes of what compile returns for the program cut
\* after its first terminator.
C17_TerminatorEndsGeneration ==
    Compiled =>
      LET cut == compile(NewCompiler, UpToTerm(program))
          n == Len(compiled)
      IN  /\ ~Panicked(cut)
          /\ n = Len(cut.bytecode)
          /\ compiler.label_patches = cut.label_patches
          /\ \A i \in 1..n :
               compiled[i] # cut.bytecode[i] => InSite(cut.label_patches, i)
          /\ SubSeq(compiled, 1, 11) = emit_fn_prologue(NewCompiler).bytecode
          /\ SubSeq(compiled, n - 4, n) = emit_fn_epilogue(NewCompiler).bytecode

C17_Witness ==
    /\ Compiled
    /\ program = <<Load(3), Op("Halt"), Load(4), Jmp(9), Op("Ret")>>
    /\ compiled = emit_fn_epilogue(emit_load_imm(emit_fn_prologue(NewCompiler), 3)).bytecode
    /\ compiler.label_patches = <<>>

\* the offset of the displacement field of the jump instruction k: the last
\* four bytes of its code
SiteOf(insts, k) == Start(insts, k + 1) - 4

C19_PatchStaysInBuffer ==
    compiles > 0 =>
      LET fresh == compile(NewCompiler, program)
      IN  /\ compiler.panicked # "index out of bounds"
          /\ (Compiled /\ ~Panicked(fresh)) =>
               /\ Len(compiled) = Len(fresh.bytecode)
               /\ \A i \in 1..Len(compiled) :
                    compiled[i] # fresh.bytecode[i]
                      => InSite(fresh.label_patches, i)

\* the machine is about to execute the first byte emitted for instruction k
\* of the program
AtInstr(k) == pc = "running" /\ machine.rip = Start(program, k)

\* the operand-stack cell i cells below the top (0 the top)
Cell(i) == ReadCell(machine, machine.rsp[2] + 8 * i)

\* rsp after the prologue: the operand stack is empty
StackBase == Ptr(-1032)

\* C20: after Dup the top two cells hold the value that was on top and the
\* cell below them is unchanged; after Swap the top two values are exchanged
\* and the cell below them is unchanged; test3 returns 2184.
C20_DupSwap ==
    /\ \A b \in Vals :
         (program = DupOf(b) /\ AtInstr(4)) =>
            /\ machine.rsp = Ptr(StackBase[2] - 24)
            /\ Cell(0) = W(b) /\ Cell(1) = W(b) /\ Cell(2) = W(7)
    /\ \A b \in Vals, c \in Vals :
         (program = SwapOf(b, c) /\ AtInstr(5)) =>
            /\ machine.rsp = Ptr(StackBase[2] - 24)
            /\ Cell(0) = W(b) /\ Cell(1) = W(c) /\ Cell(2) = W(7)
    /\ (program = test3 /\ Returned) => machine.rax = W(2184)

C20_Witness ==
    /\ program = SwapOf(1, 2)
    /\ AtInstr(5)
    /\ Cell(0) = W(1)
    /\ Cell(1) = W(2)
    /\ Cell(2) = W(7)

RECURSIVE IntBits(_, _, _)
\* a & b, a | b, a ^ b of two integers in two's complement
IntBits(o, a, b) ==
    IF a \in {0, -1} /\ b \in {0, -1}
    THEN CASE o = "Band" -> IF a = -1 /\ b = -1 THEN -1 ELSE 0
           [] o = "Bor" -> IF a = -1 \/ b = -1 THEN -1 ELSE 0
           [] o = "Bxor" -> IF a # b THEN -1 ELSE 0
    ELSE LET p == a % 2
             q == b % 2
             r == CASE o = "Band" -> IF p = 1 /\ q = 1 THEN 1 ELSE 0
                    [] o = "Bor" -> IF p = 1 \/ q = 1 THEN 1 ELSE 0
                    [] o = "Bxor" -> IF p # q THEN 1 ELSE 0
         IN  r + 2 * IntBits(o, a \div 2, b \div 2)

\* a 64-bit word shifted left by n bits, 0 <= n <= 63: whole bytes, then bits
ShiftedLeft(a, n) ==
    LET q == n \div 8
        r == n % 8
        at(j) == IF j >= 1 THEN a[j] ELSE 0
    IN  [i \in 1..8 |-> ((at(i - q) * (2 ^ r)) % 256) + ((at(i - q - 1) * (2 ^ r)) \div 256)]

\* a 64-bit word shifted right by n bits, 0 <= n <= 63, the sign bit filling
ShiftedRight(a, n) ==
    LET q == n \div 8
        r == n % 8
        at(j) == IF j <= 8 THEN a[j] ELSE IF a[8] >= 128 THEN 255 ELSE 0
    IN  [i \in 1..8 |-> (at(i + q) \div (2 ^ r)) + ((at(i + q + 1) * (2 ^ (8 - r))) % 256)]

\* what the claim says a bitwise or shift operator pushes for a (deeper) and
\* b (top)
BitResult(o, a, b) ==
    CASE o \in {"Band", "Bor", "Bxor"} -> W(IntBits(o, a, b))
      [] o = "Shl" -> ShiftedLeft(W(a), b % 64)
      [] o = "Shr" -> ShiftedRight(W(a), b % 64)

\* C21: Band, Bor, Bxor push a & b, a | b, a ^ b; Bnot pushes ~a; Shl pushes
\* a shifted left and Shr a shifted right, sign-preserving, by the low 6 bits
\* of b; test5 returns 23.
C21_BitwiseShift ==
    /\ \A ab \in (Vals \X Vals) \cup ShiftPairs, o \in BitOps :
         program = TwoOp(ab[1], ab[2], o) =>
            /\ pc \notin {"compile_panicked", "killed", "undefined"}
            /\ (Returned => machine.rax = BitResult(o, ab[1], ab[2]))
    /\ \A a \in Vals :
         program = OneOp(a, "Bnot") =>
            /\ pc \notin {"compile_panicked", "killed", "undefined"}
            /\ (Returned => machine.rax = W(-a - 1))
    /\ (program = test5 /\ Returned) => machine.rax = W(23)

C21_Witness ==
    /\ Returned
    /\ program = TwoOp(-5, 65, "Shr")
    /\ machine.rax = W(-3)

RECURSIVE NeverBelow(_, _, _, _)
\* taking the instructions in program order from depth d, the operand stack
\* is never popped to fewer than f entries (f < 0: below empty)
NeverBelow(insts, i, d, f) ==
    IF i > Len(insts) THEN TRUE
    ELSE /\ d - Needs(insts[i].op) >= f
         /\ (insts[i].op \in Terminators
               \/ NeverBelow(insts, i + 1, d + Effect(insts[i].op), f))

\* the program keeps to the 128 cells of its frame: it never pops the operand
\* stack more than 128 entries below empty, and stores to slots 0..127 only
KeepsToFrame(insts) ==
    /\ NeverBelow(insts, 1, 0, -(1024 \div 8))
    /\ \A k \in 1..Len(insts) : insts[k].op = "Store" => insts[k].arg \in 0..127

\* the offset of the epilogue's first byte in the code being executed
EpilogueStart == Len(code) - Len(emit_fn_epilogue(NewCompiler).bytecode)

\* execution is at the epilogue with the frame pointer and the two cells
\* above the frame as the prologue left them
FrameIntact ==
    (pc = "running" /\ machine.rip = EpilogueStart) =>
       /\ machine.rbp = Ptr(-8)
       /\ ReadCell(machine, -8) = EntryRbp
       /\ ReadCell(machine, 0) = RetAddr

\* the function has returned to its caller's return address with the stack
\* pointer (the return address popped) and the frame pointer of the entry
ReturnedToCaller ==
    Returned =>
       /\ machine.rsp = Ptr(8)
       /\ machine.rbp = EntryRbp

\* from the epilogue on, execution stays in the epilogue and returns
EpilogueReturns ==
    (pc = "running" /\ machine.rip >= EpilogueStart) =>
       (pc' \in {"running", "munmap"} /\ machine'.rip > machine.rip)

C23_CalleeSavedKept ==
    Returned =>
       /\ machine.rbx = EntryRbx
       /\ machine.rbp = EntryRbp

====
